---- MODULE Spec2Model ----
(***************************************************************************)
(* camelol (src/main.rs): the 24 scales of the Camelot wheel, the ten      *)
(* scale transitions, the petgraph graph main builds from them, and        *)
(* multi_path_dijkstra, the search that pops candidates from a BinaryHeap  *)
(* ordered by cost alone and returns the first n arrivals at the target.   *)
(***************************************************************************)
EXTENDS Integers, Sequences, FiniteSets, Bags, TLC

(***************************************************************************)
(* Bounds of the model.                                                    *)
(***************************************************************************)
\* largest n the generalised call passes to multi_path_dijkstra
MaxN == 2
\* a candidate of this cost is not expanded any more (the frontier of a
\* cyclic graph grows without end otherwise)
MaxCost == 4
\* number of nodes of the small arbitrary graphs
GenNodes == 3
\* largest size of the amount passed to change_index on its own
MaxAmount == 14
\* a candidate of this cost is not expanded in the searches with a heap
\* that may pop any of its greatest candidates
AnyMaxCost == 3
\* largest number of edges of the small arbitrary graphs
MaxEdges == 3

(***************************************************************************)
(* ScaleKind, Scale                                                        *)
(***************************************************************************)
ScaleKind == {"Major", "Minor"}

\* a swap that yields Major for both kinds
swap_always_major(kind) == "Major"

\* ScaleKind::swap
swap(kind) == IF kind = "Minor" THEN "Major" ELSE "Minor"

\* Display for ScaleKind: the letter printed for a kind
fmt(kind) == IF kind = "Minor" THEN "A" ELSE "B"

\* the kind that is printed with the given letter
KindOfLetter(letter) == CHOOSE kind \in ScaleKind : fmt(kind) = letter

\* Rust's % on isize: the remainder has the sign of the dividend
rem(num, modulus) == IF num >= 0 THEN num % modulus ELSE 0 - ((0 - num) % modulus)

\* the remainder without the shift into the non-negative range
mod_cyclic_truncated(num, modulus) == rem(num, modulus)

mod_cyclic(num, modulus) == rem(rem(num, modulus) + modulus, modulus)

scale(index, kind) == [index |-> index, kind |-> kind]

\* swap_kind that copies self unchanged
swap_kind_unchanged(self) == self

swap_kind(self) == [self EXCEPT !.kind = swap(self.kind)]

\* change_index without the reduction modulo 12
change_index_unwrapped(self, amount) == [self EXCEPT !.index = self.index + amount]

change_index(self, amount) == [self EXCEPT !.index = mod_cyclic(self.index + amount, 12)]

RECURSIVE FlatMapNodes(_)
FlatMapNodes(i) ==
    IF i > 11 THEN <<>>
    ELSE <<scale(i, "Minor"), scale(i, "Major")>> \o FlatMapNodes(i + 1)

make_nodes == FlatMapNodes(0)

(***************************************************************************)
(* ScaleTransition                                                         *)
(***************************************************************************)
Vertical == [tag |-> "Vertical", amount |-> 0]
Diagonal == [tag |-> "Diagonal", amount |-> 0]
MajorToMinor == [tag |-> "MajorToMinor", amount |-> 0]
FlatToMinor == [tag |-> "FlatToMinor", amount |-> 0]
ChangeIndex(amount) == [tag |-> "ChangeIndex", amount |-> amount]

\* the catalog without its last rule
possible_transitions_but_last ==
    << Vertical, Diagonal, MajorToMinor, FlatToMinor,
       ChangeIndex(1), ChangeIndex(2), ChangeIndex(7),
       ChangeIndex(-1), ChangeIndex(-2) >>

possible_transitions ==
    << Vertical, Diagonal, MajorToMinor, FlatToMinor,
       ChangeIndex(1), ChangeIndex(2), ChangeIndex(7),
       ChangeIndex(-1), ChangeIndex(-2), ChangeIndex(-7) >>

\* the value standing for a panic at unreachable!()
Unreachable == [index |-> 0 - 1, kind |-> "unreachable"]

\* the arms of make_transition for Diagonal, offsets exchanged
make_transition_diagonal_swapped(s, transition) ==
    CASE transition.tag = "Vertical" -> swap_kind(s)
      [] transition.tag = "ChangeIndex" -> change_index(s, transition.amount)
      [] transition.tag = "Diagonal" /\ s.kind = "Major" -> change_index(swap_kind(s), 0 - 1)
      [] transition.tag = "Diagonal" /\ s.kind = "Minor" -> change_index(swap_kind(s), 1)
      [] transition.tag = "FlatToMinor" /\ s.kind = "Minor" -> change_index(swap_kind(s), 0 - 4)
      [] transition.tag = "FlatToMinor" /\ s.kind = "Major" -> change_index(swap_kind(s), 4)
      [] transition.tag = "MajorToMinor" /\ s.kind = "Minor" -> change_index(swap_kind(s), 3)
      [] transition.tag = "MajorToMinor" /\ s.kind = "Major" -> change_index(swap_kind(s), 0 - 3)
      [] OTHER -> Unreachable

\* the arm of make_transition for FlatToMinor, offsets exchanged
make_transition_flat_swapped(s, transition) ==
    CASE transition.tag = "Vertical" -> swap_kind(s)
      [] transition.tag = "ChangeIndex" -> change_index(s, transition.amount)
      [] transition.tag = "Diagonal" /\ s.kind = "Major" -> change_index(swap_kind(s), 1)
      [] transition.tag = "Diagonal" /\ s.kind = "Minor" -> change_index(swap_kind(s), 0 - 1)
      [] transition.tag = "FlatToMinor" /\ s.kind = "Minor" -> change_index(swap_kind(s), 4)
      [] transition.tag = "FlatToMinor" /\ s.kind = "Major" -> change_index(swap_kind(s), 0 - 4)
      [] transition.tag = "MajorToMinor" /\ s.kind = "Minor" -> change_index(swap_kind(s), 3)
      [] transition.tag = "MajorToMinor" /\ s.kind = "Major" -> change_index(swap_kind(s), 0 - 3)
      [] OTHER -> Unreachable

make_transition(s, transition) ==
    CASE transition.tag = "Vertical" -> swap_kind(s)
      [] transition.tag = "ChangeIndex" -> change_index(s, transition.amount)
      [] transition.tag = "Diagonal" /\ s.kind = "Major" -> change_index(swap_kind(s), 1)
      [] transition.tag = "Diagonal" /\ s.kind = "Minor" -> change_index(swap_kind(s), 0 - 1)
      [] transition.tag = "FlatToMinor" /\ s.kind = "Minor" -> change_index(swap_kind(s), 0 - 4)
      [] transition.tag = "FlatToMinor" /\ s.kind = "Major" -> change_index(swap_kind(s), 4)
      [] transition.tag = "MajorToMinor" /\ s.kind = "Minor" -> change_index(swap_kind(s), 3)
      [] transition.tag = "MajorToMinor" /\ s.kind = "Major" -> change_index(swap_kind(s), 0 - 3)
      [] OTHER -> Unreachable

(***************************************************************************)
(* petgraph::Graph<Scale, ScaleTransition>: node weights in the order of   *)
(* add_node (NodeIndex k is nodes[k + 1]) and edges in the order of        *)
(* add_edge.                                                               *)
(***************************************************************************)
GraphNew == [nodes |-> <<>>, edges |-> <<>>]

\* the NodeIndex add_node returns
node_count(g) == Len(g.nodes)

add_node(g, weight) == [g EXCEPT !.nodes = Append(@, weight)]

add_edge(g, a, b, weight) ==
    [g EXCEPT !.edges = Append(@, [source |-> a, target |-> b, weight |-> weight])]

node_weight(g, a) == g.nodes[a + 1]

\* the positions in g.edges of the outgoing edges of a
OutgoingOf(g, a) == {k \in 1..Len(g.edges) : g.edges[k].source = a}

\* graph.edges(a) without the edge added first
edges_but_first(g, a) ==
    LET out == OutgoingOf(g, a)
    IN  [i \in 1..(Cardinality(out) - 1) |->
            g.edges[CHOOSE k \in out : Cardinality({m \in out : m >= k}) = i]]

\* graph.edges(a): the outgoing edges of a, the one added last first
edges(g, a) ==
    LET out == OutgoingOf(g, a)
    IN  [i \in 1..Cardinality(out) |->
            g.edges[CHOOSE k \in out : Cardinality({m \in out : m >= k}) = i]]

(***************************************************************************)
(* Path and its ordering: equality and order look at cost only, and the    *)
(* order is reversed so that the max-heap pops the lowest cost.            *)
(***************************************************************************)
None == <<>>
Some(x) == <<x>>

\* usize / i32 comparison
int_cmp(a, b) == IF a < b THEN "Less" ELSE IF a = b THEN "Equal" ELSE "Greater"

\* the order of the costs, not reversed: the heap yields a dearest candidate
cmp_not_reversed(self, other) == int_cmp(self.cost, other.cost)

\* Ord for Path
cmp(self, other) == int_cmp(other.cost, self.cost)

\* self <= other through PartialOrd for Path
le(self, other) == cmp(self, other) # "Greater"

(***************************************************************************)
(* std::collections::BinaryHeap<Path>: data is the heap's vector, position *)
(* pos of the vector is data[pos + 1].                                     *)
(***************************************************************************)
RECURSIVE sift_up_hole(_, _, _, _)
sift_up_hole(data, start, pos, element) ==
    IF pos > start
    THEN LET parent == (pos - 1) \div 2
         IN  IF le(element, data[parent + 1])
             THEN [data EXCEPT ![pos + 1] = element]
             ELSE sift_up_hole([data EXCEPT ![pos + 1] = data[parent + 1]],
                               start, parent, element)
    ELSE [data EXCEPT ![pos + 1] = element]

sift_up(data, start, pos) == sift_up_hole(data, start, pos, data[pos + 1])

saturating_sub(a, b) == IF a >= b THEN a - b ELSE 0

RECURSIVE sift_down_hole(_, _, _, _)
sift_down_hole(data, start, pos, element) ==
    LET end == Len(data)
        child == 2 * pos + 1
    IN  IF child <= saturating_sub(end, 2)
        THEN LET greater == IF le(data[child + 1], data[child + 2])
                            THEN child + 1 ELSE child
             IN  sift_down_hole([data EXCEPT ![pos + 1] = data[greater + 1]],
                                start, greater, element)
        ELSE IF child = end - 1
             THEN sift_up_hole([data EXCEPT ![pos + 1] = data[child + 1]],
                               start, child, element)
             ELSE sift_up_hole(data, start, pos, element)

sift_down_to_bottom(data, pos) == sift_down_hole(data, pos, pos, data[pos + 1])

\* BinaryHeap::push
push(data, item) == sift_up(Append(data, item), 0, Len(data))

\* BinaryHeap::pop of a heap that is not empty: the item popped and the
\* vector left
pop(data) ==
    LET last == data[Len(data)]
        rest == SubSeq(data, 1, Len(data) - 1)
    IN  IF rest = <<>>
        THEN [item |-> last, data |-> rest]
        ELSE [item |-> rest[1],
              data |-> sift_down_to_bottom([rest EXCEPT ![1] = last], 0)]

(***************************************************************************)
(* State: main's graph and lookup table, and the locals of one call of     *)
(* multi_path_dijkstra.  pushed is a history variable: the list of the     *)
(* transition sequences of all the candidates the call has pushed so far.  *)
(* call is the last call of a function of Scale made on its own: the       *)
(* function, its arguments and what it returned.                           *)
(***************************************************************************)
VARIABLES pc, graph, scale_to_index, source, target, n, min_heap, paths,
          pushed, call

vars == <<pc, graph, scale_to_index, source, target, n, min_heap, paths,
          pushed, call>>

\* no function of Scale has been called on its own
NoCall == [fn |-> "none"]

\* the transitions a candidate has taken from the source, the pending one
\* included
Transitions(path) == path.transition_path \o path.transition

\* the seed with the source already in its history
Seed_with_source(src) ==
    [cost |-> 0, node |-> src, transition |-> None,
     path |-> <<src>>, transition_path |-> <<>>]

\* the candidate multi_path_dijkstra seeds the heap with
Seed(src) ==
    [cost |-> 0, node |-> src, transition |-> None,
     path |-> <<>>, transition_path |-> <<>>]

\* the popped candidate with its node pushed and its transition dropped
Visit_without_transition(path) == [path EXCEPT !.path = Append(@, path.node)]

\* a candidate with its node and pending transition appended to its history
Visit(path) ==
    [path EXCEPT !.path = Append(@, path.node),
                 !.transition_path =
                    IF path.transition # None THEN Append(@, path.transition[1]) ELSE @]

\* the child with the cost of its parent
Child_same_cost(path, edge) ==
    [cost |-> path.cost, node |-> edge.target, transition |-> Some(edge.weight),
     transition_path |-> path.transition_path, path |-> path.path]

\* the child placed at the source of the edge
Child_at_source(path, edge) ==
    [cost |-> path.cost + 1, node |-> edge.source, transition |-> Some(edge.weight),
     transition_path |-> path.transition_path, path |-> path.path]

\* the child one cheaper than its parent
Child_cheaper(path, edge) ==
    [cost |-> path.cost - 1, node |-> edge.target, transition |-> Some(edge.weight),
     transition_path |-> path.transition_path, path |-> path.path]

\* the candidate pushed for one outgoing edge
Child(path, edge) ==
    [cost |-> path.cost + 1, node |-> edge.target, transition |-> Some(edge.weight),
     transition_path |-> path.transition_path, path |-> path.path]

\* the transition sequences of the candidates pushed for the edges es
PushedFor(path, es) ==
    [i \in 1..Len(es) |-> Transitions(Child(path, es[i]))]

\* the for loop over graph.edges(path.node): one push per edge
RECURSIVE PushEdges(_, _, _)
PushEdges(data, path, es) ==
    IF es = <<>> THEN data
    ELSE PushEdges(push(data, Child(path, Head(es))), path, Tail(es))

\* main, after Graph::new(), make_nodes() and possible_transitions()
Init ==
    /\ pc = "nodes"
    /\ graph = GraphNew
    /\ scale_to_index = <<>>
    /\ source = 0
    /\ target = 0
    /\ n = 0
    /\ min_heap = <<>>
    /\ paths = <<>>
    /\ pushed = <<>>
    /\ call = NoCall

\* one step of the map that fills scale_to_index: add_node
AddNode ==
    /\ pc = "nodes"
    /\ LET s == make_nodes[Len(graph.nodes) + 1]
       IN  /\ graph' = add_node(graph, s)
           /\ scale_to_index' = scale_to_index @@ (s :> node_count(graph))
    /\ pc' = IF Len(graph.nodes) + 1 = Len(make_nodes) THEN "edges" ELSE "nodes"
    /\ UNCHANGED <<source, target, n, min_heap, paths, pushed, call>>

\* one turn of the inner loop of main: the edge of one scale and transition
AddEdge ==
    /\ pc = "edges"
    /\ LET k == Len(graph.edges)
           nt == Len(possible_transitions)
           s == make_nodes[(k \div nt) + 1]
           transition == possible_transitions[(k % nt) + 1]
           target_scale == make_transition(s, transition)
       IN  IF target_scale \in DOMAIN scale_to_index
           THEN /\ graph' = add_edge(graph, scale_to_index[s],
                                     scale_to_index[target_scale], transition)
                /\ pc' = IF k + 1 = Len(make_nodes) * nt THEN "call" ELSE "edges"
           ELSE /\ pc' = "panic"
                /\ UNCHANGED graph
    /\ UNCHANGED <<scale_to_index, source, target, n, min_heap, paths, pushed, call>>

\* entry of multi_path_dijkstra: the heap holds the seed, paths is empty
Enter(src, tgt, count) ==
    /\ source' = src
    /\ target' = tgt
    /\ n' = count
    /\ min_heap' = push(<<>>, Seed(src))
    /\ paths' = <<>>
    /\ pushed' = <<Transitions(Seed(src))>>
    /\ pc' = "search"
    /\ UNCHANGED <<graph, scale_to_index, call>>

\* the number of paths main asks for
MainCount == 10

\* the call of main with source and target exchanged
MainCall_reversed ==
    /\ pc = "call"
    /\ LET a_minor == scale_to_index[scale(11, "Minor")]
           d_flat_major == scale_to_index[scale(0, "Major")]
       IN  Enter(d_flat_major, a_minor, MainCount)

\* the call main makes
MainCall ==
    /\ pc = "call"
    /\ LET a_minor == scale_to_index[scale(11, "Minor")]
           d_flat_major == scale_to_index[scale(0, "Major")]
       IN  Enter(a_minor, d_flat_major, MainCount)

\* a call with any source, target and a small n
Call ==
    /\ pc = "call"
    /\ \E src \in 0..(node_count(graph) - 1), tgt \in 0..(node_count(graph) - 1),
          count \in 0..MaxN :
          Enter(src, tgt, count)

\* paths.len() > n, the test of the break off by one
enough_strict(found, count) == Len(found) > count

\* paths.len() >= n, the test of the break
enough(found, count) == Len(found) >= count

\* one turn of the while loop of multi_path_dijkstra, the return included
Loop ==
    /\ pc = "search"
    /\ IF min_heap = <<>>
       THEN /\ pc' = "done"
            /\ UNCHANGED <<min_heap, paths, pushed>>
       ELSE LET popped == pop(min_heap)
                path == Visit(popped.item)
                arrived == path.node = target
                found == IF arrived THEN Append(paths, path) ELSE paths
            IN  IF arrived /\ enough(found, n)
                THEN /\ paths' = found
                     /\ min_heap' = popped.data
                     /\ pc' = "done"
                     /\ UNCHANGED pushed
                ELSE /\ path.cost < MaxCost
                     /\ paths' = found
                     /\ min_heap' = PushEdges(popped.data, path, edges(graph, path.node))
                     /\ pushed' = pushed \o PushedFor(path, edges(graph, path.node))
                     /\ pc' = "search"
    /\ UNCHANGED <<graph, scale_to_index, source, target, n, call>>

Next == AddNode \/ AddEdge \/ MainCall \/ Call \/ Loop

Spec == Init /\ [][Next]_vars

\* main up to the end of its two loops: the graph is built and no search
\* is made
BuildNext == AddNode \/ AddEdge

BuildSpec == Init /\ [][BuildNext]_vars

(***************************************************************************)
(* multi_path_dijkstra on small arbitrary graphs: every graph of GenNodes  *)
(* nodes with at most MaxEdges edges, no two of them parallel.             *)
(***************************************************************************)
GenPairs == (0..(GenNodes - 1)) \X (0..(GenNodes - 1))

\* the graph main's two loops would build from the node weights
\* scale(0, Minor), scale(1, Minor), ... and the edges of es, added in the
\* order of their source and target
GenGraph(es) ==
    LET key(e) == e[1] * GenNodes + e[2]
        nth(i) == CHOOSE e \in es : Cardinality({d \in es : key(d) <= key(e)}) = i
    IN  [nodes |-> [i \in 1..GenNodes |-> scale(i - 1, "Minor")],
         edges |-> [i \in 1..Cardinality(es) |->
                       [source |-> nth(i)[1], target |-> nth(i)[2],
                        weight |-> ChangeIndex(nth(i)[2] - nth(i)[1])]]]

GenInit ==
    /\ pc = "call"
    /\ \E es \in SUBSET GenPairs :
          /\ Cardinality(es) <= MaxEdges
          /\ graph = GenGraph(es)
    /\ scale_to_index = [s \in {scale(i, "Minor") : i \in 0..(GenNodes - 1)} |-> s.index]
    /\ source = 0
    /\ target = 0
    /\ n = 0
    /\ min_heap = <<>>
    /\ paths = <<>>
    /\ pushed = <<>>
    /\ call = NoCall

GenNext == Call \/ Loop

GenSpec == GenInit /\ [][GenNext]_vars

(***************************************************************************)
(* The functions of Scale called on their own, on each of the 24 scales:   *)
(* call holds the last call, its receiver and what it returned.            *)
(***************************************************************************)
FnInit ==
    /\ pc = "fn"
    /\ graph = GraphNew
    /\ scale_to_index = <<>>
    /\ source = 0
    /\ target = 0
    /\ n = 0
    /\ min_heap = <<>>
    /\ paths = <<>>
    /\ pushed = <<>>
    /\ call = NoCall

\* self.change_index(amount)
ChangeIndexCall ==
    /\ pc = "fn"
    /\ \E i \in 1..Len(make_nodes), amount \in (0 - MaxAmount)..MaxAmount :
          call' = [fn |-> "change_index", self |-> make_nodes[i],
                   amount |-> amount, applied |-> 1, first |-> make_nodes[i],
                   ret |-> change_index(make_nodes[i], amount)]
    /\ UNCHANGED <<pc, graph, scale_to_index, source, target, n, min_heap,
                   paths, pushed>>

\* self.swap_kind()
SwapKindCall ==
    /\ pc = "fn"
    /\ \E i \in 1..Len(make_nodes) :
          call' = [fn |-> "swap_kind", self |-> make_nodes[i], amount |-> 0,
                   applied |-> 1, first |-> make_nodes[i],
                   ret |-> swap_kind(make_nodes[i])]
    /\ UNCHANGED <<pc, graph, scale_to_index, source, target, n, min_heap,
                   paths, pushed>>

\* swap_kind() on what swap_kind() has just returned
SwapKindAgain ==
    /\ pc = "fn"
    /\ call.fn = "swap_kind"
    /\ call.applied = 1
    /\ call' = [fn |-> "swap_kind", self |-> call.ret, amount |-> 0,
                applied |-> 2, first |-> call.first,
                ret |-> swap_kind(call.ret)]
    /\ UNCHANGED <<pc, graph, scale_to_index, source, target, n, min_heap,
                   paths, pushed>>

FnNext == ChangeIndexCall \/ SwapKindCall \/ SwapKindAgain

FnSpec == FnInit /\ [][FnNext]_vars

(***************************************************************************)
(* multi_path_dijkstra with a heap of which only the contract of           *)
(* BinaryHeap is known: pop yields a greatest candidate under Ord for      *)
(* Path, any of them when several are equal.  min_heap is the bag of the   *)
(* candidates in the heap, since their positions play no part; the         *)
(* history pushed is not kept.  The graphs are the small arbitrary graphs, *)
(* and a candidate of cost AnyMaxCost is not expanded.                     *)
(***************************************************************************)
AnyInit ==
    /\ pc = "anycall"
    /\ \E es \in SUBSET GenPairs :
          /\ Cardinality(es) <= MaxEdges
          /\ graph = GenGraph(es)
    /\ scale_to_index = [s \in {scale(i, "Minor") : i \in 0..(GenNodes - 1)} |-> s.index]
    /\ source = 0
    /\ target = 0
    /\ n = 0
    /\ min_heap = EmptyBag
    /\ paths = <<>>
    /\ pushed = <<>>
    /\ call = NoCall

\* the bag of the elements of a sequence
SeqToBag(seq) ==
    [x \in {seq[i] : i \in 1..Len(seq)} |->
        Cardinality({i \in 1..Len(seq) : seq[i] = x})]

\* multi_path_dijkstra is entered: the seed is pushed
AnyCall ==
    /\ pc = "anycall"
    /\ \E src \in 0..(node_count(graph) - 1), tgt \in 0..(node_count(graph) - 1),
          count \in 0..MaxN :
          /\ source' = src
          /\ target' = tgt
          /\ n' = count
          /\ min_heap' = SeqToBag(<<Seed(src)>>)
    /\ paths' = <<>>
    /\ pc' = "anysearch"
    /\ UNCHANGED <<graph, scale_to_index, pushed, call>>

\* one turn of the while loop, the return included: item is any candidate
\* of the heap that none of the others exceeds
AnyLoop ==
    /\ pc = "anysearch"
    /\ IF min_heap = EmptyBag
       THEN /\ pc' = "done"
            /\ UNCHANGED <<min_heap, paths>>
       ELSE \E item \in BagToSet(min_heap) :
               /\ \A other \in BagToSet(min_heap) : le(other, item)
               /\ LET data == min_heap (-) SeqToBag(<<item>>)
                      path == Visit(item)
                      arrived == path.node = target
                      found == IF arrived THEN Append(paths, path) ELSE paths
                      es == edges(graph, path.node)
                  IN  IF arrived /\ enough(found, n)
                      THEN /\ paths' = found
                           /\ min_heap' = data
                           /\ pc' = "done"
                      ELSE /\ path.cost < AnyMaxCost
                           /\ paths' = found
                           /\ min_heap' =
                                 data (+) SeqToBag([i \in 1..Len(es) |-> Child(path, es[i])])
                           /\ pc' = "anysearch"
    /\ UNCHANGED <<graph, scale_to_index, source, target, n, pushed, call>>

AnyNext == AnyCall \/ AnyLoop

AnySpec == AnyInit /\ [][AnyNext]_vars

(***************************************************************************)
(* Definitions the properties are stated with.                             *)
(***************************************************************************)
\* the search has been entered (it is running or has returned)
Entered == pc \in {"search", "done"}

\* the search has returned paths
Returned == pc = "done"

NonDecreasing(ps) == \A i \in 1..(Len(ps) - 1) : ps[i].cost <= ps[i + 1].cost

\* the walks of g that start at a and take exactly k edges, each with its
\* nodes and the weights of its edges
RECURSIVE WalksOfLength(_, _, _)
WalksOfLength(g, a, k) ==
    IF k = 0 THEN {[path |-> <<a>>, transition_path |-> <<>>]}
    ELSE UNION {
           {[path |-> Append(w.path, g.edges[e].target),
             transition_path |-> Append(w.transition_path, g.edges[e].weight)] :
              e \in OutgoingOf(g, w.path[Len(w.path)])} :
           w \in WalksOfLength(g, a, k - 1)}

\* the walks from a to b of fewer than c edges
CheaperWalks(g, a, b, c) ==
    UNION {{w \in WalksOfLength(g, a, k) : w.path[Len(w.path)] = b} : k \in 0..(c - 1)}

BuiltGraph == Len(graph.nodes) = 24

\* C1: the costs of the paths returned for n >= 1, in the order returned,
\* never decrease.
C1_CostsNonDecreasing == (Returned /\ n >= 1) => NonDecreasing(paths)

\* a search for n >= 1 has returned paths of two different costs
C1_Witness ==
    /\ Returned /\ n >= 1 /\ BuiltGraph
    /\ Len(paths) >= 2
    /\ paths[1].cost < paths[Len(paths)].cost

\* C2: when a path of cost c is returned, every walk from source to target
\* of fewer than c edges is among the paths returned.
C2_CheapestWalks ==
    Returned =>
        \A i \in 1..Len(paths) :
            \A w \in CheaperWalks(graph, source, target, paths[i].cost) :
                \E j \in 1..Len(paths) :
                    /\ paths[j].path = w.path
                    /\ paths[j].transition_path = w.transition_path

\* paths of a higher cost were returned after all the cheaper walks, of
\* which there are some
C2_Witness ==
    /\ Returned /\ BuiltGraph
    /\ Len(paths) >= 2
    /\ CheaperWalks(graph, source, target, paths[Len(paths)].cost) # {}
    /\ paths[1].cost < paths[Len(paths)].cost

\* C3: a returned path starts at source, ends at target, has one transition
\* less than nodes and a cost equal to the number of its transitions.
C3_PathShape ==
    Entered =>
        \A i \in 1..Len(paths) :
            /\ paths[i].path # <<>>
            /\ paths[i].path[1] = source
            /\ paths[i].path[Len(paths[i].path)] = target
            /\ Len(paths[i].transition_path) = Len(paths[i].path) - 1
            /\ paths[i].cost = Len(paths[i].transition_path)

\* a path of at least two edges has been returned
C3_Witness ==
    /\ Returned /\ BuiltGraph
    /\ \E i \in 1..Len(paths) : Len(paths[i].transition_path) >= 2

\* C4: a returned path is a walk of the graph: each node is make_transition
\* of the node before it and the transition recorded between them, and the
\* graph holds that edge.
C4_RealWalk ==
    Entered =>
        \A i \in 1..Len(paths) :
            \A k \in 1..(Len(paths[i].path) - 1) :
                /\ k <= Len(paths[i].transition_path)
                /\ node_weight(graph, paths[i].path[k + 1]) =
                      make_transition(node_weight(graph, paths[i].path[k]),
                                      paths[i].transition_path[k])
                /\ \E e \in OutgoingOf(graph, paths[i].path[k]) :
                      /\ graph.edges[e].target = paths[i].path[k + 1]
                      /\ graph.edges[e].weight = paths[i].transition_path[k]

\* a path of three edges has been returned by the call main makes
C4_Witness ==
    /\ Returned /\ BuiltGraph
    /\ \E i \in 1..Len(paths) : Len(paths[i].path) = 4

\* the nodes of g a walk from a reaches, a included
RECURSIVE ReachWithin(_, _, _)
ReachWithin(g, seen, k) ==
    IF k = 0 THEN seen
    ELSE ReachWithin(g,
            seen \cup {g.edges[e].target :
                          e \in {d \in 1..Len(g.edges) : g.edges[d].source \in seen}},
            k - 1)

Reach(g, a) == ReachWithin(g, {a}, node_count(g))

\* C5: with n = 0 the search returns no path and pushes no candidate but
\* the seed.
C5_ZeroYieldsEmpty ==
    (Entered /\ n = 0) =>
        /\ paths = <<>>
        /\ \A i \in 1..Len(min_heap) : min_heap[i] = Seed(source)

\* C6: with target unreachable from source the search for n >= 1 paths
\* returns, with fewer than n paths.  A search that returns without an arrival has popped every
\* walk from source, so these are finitely many and none of them has as
\* many edges as the graph has nodes (such a walk goes round a cycle, and
\* the walks round the cycle are pushed without end).
C6_UnreachableTargetReturns ==
    (Entered /\ n >= 1 /\ target \notin Reach(graph, source)) =>
        /\ \A i \in 1..Len(min_heap) : min_heap[i].cost < node_count(graph)
        /\ paths = <<>>

\* C7: with source = target and n >= 1 the first path returned has cost 0,
\* the nodes <<source>> and no transition.
C7_SourceIsTarget ==
    (Entered /\ source = target /\ n >= 1) =>
        IF paths = <<>>
        THEN min_heap = <<Seed(source)>> /\ pc = "search"
        ELSE /\ paths[1].cost = 0
             /\ paths[1].path = <<source>>
             /\ paths[1].transition_path = <<>>

\* a search from a node to itself has returned the empty walk and then a
\* walk round a cycle
C7_Witness ==
    /\ Returned /\ source = target /\ n >= 2
    /\ Len(paths) = 2
    /\ paths[2].cost >= 1

\* C8: the call of main, from 12A to 1B with n = 10, returns exactly 10
\* paths of non-decreasing cost, the first of a cost of at least 1 and with
\* as many transitions as its cost.
C8_MainCall ==
    (Entered /\ n = MainCount) =>
        /\ node_weight(graph, source) = scale(11, KindOfLetter("A"))
        /\ node_weight(graph, target) = scale(0, KindOfLetter("B"))
        /\ NonDecreasing(paths)
        /\ pc = "search" => Len(paths) < MainCount
        /\ Returned =>
              /\ Len(paths) = MainCount
              /\ paths[1].cost >= 1
              /\ Len(paths[1].transition_path) = paths[1].cost

\* the call of main has returned
C8_Witness == Returned /\ n = MainCount /\ Len(paths) = MainCount

\* the loop can take its next turn: the frontier holds a candidate, and
\* this candidate is the last arrival asked for or is cheap enough for the
\* model to expand it
CanTurn ==
    /\ min_heap # <<>>
    /\ LET path == Visit(pop(min_heap).item)
       IN  \/ path.node = target /\ Len(paths) + 1 >= n
           \/ path.cost < MaxCost

\* C9: on the built graph a search for n >= 1 paths stops, it stops at the
\* pop of the n-th arrival at target, and it returns exactly n paths.  It
\* stops because the loop always has a next turn until it returns, every
\* turn that does not return pops one walk and pushes the ten that extend
\* it, and no walk of more than n + 2 edges is ever pushed: there are
\* finitely many walks to pop.
C9_StopsAtNth ==
    /\ [](Entered /\ n >= 1 =>
            /\ Returned \/ CanTurn
            /\ \A i \in 1..Len(min_heap) : min_heap[i].cost <= n + 2
            /\ pc = "search" => Len(paths) < n
            /\ Returned => Len(paths) = n)
    /\ [][(pc = "search" /\ n >= 1) =>
            /\ pc' = "search" => Len(min_heap') = Len(min_heap) + 9
            /\ pc' = "done" =>
                  /\ Len(paths) = n - 1
                  /\ Len(paths') = n
                  /\ paths'[n].node = target]_vars

\* a search for n >= 2 paths between two different nodes has returned
C9_Witness ==
    /\ Returned /\ BuiltGraph
    /\ n >= 2 /\ source # target
    /\ Len(paths) = n

\* while main builds the graph (the search leaves it alone): the edges of
\* the given transition added so far swap the kind and move the index by
\* the offset of the letter they start from, and once the graph is built
\* every node has such an edge
OffsetRule(transition, fromA, fromB) ==
    /\ pc \in {"edges", "call", "panic"} => \A e \in 1..Len(graph.edges) :
          graph.edges[e].weight = transition =>
             LET from == node_weight(graph, graph.edges[e].source)
                 to == node_weight(graph, graph.edges[e].target)
                 offset == IF fmt(from.kind) = "A" THEN fromA ELSE fromB
             IN  /\ to.kind \in ScaleKind /\ to.kind # from.kind
                 /\ to.index = (from.index + offset) % 12
    /\ pc = "call" =>
          \A a \in 0..23 :
             \E e \in OutgoingOf(graph, a) : graph.edges[e].weight = transition

\* C10 as stated: FlatToMinor swaps the kind and moves the index by +4 from
\* "A" and by -4 from "B".
C10_FlatToMinorAsStated == OffsetRule(FlatToMinor, 4, 0 - 4)

\* C10 amended: FlatToMinor swaps the kind and moves the index by -4 modulo
\* 12 from "A" (Minor) and by +4 modulo 12 from "B" (Major), for each of
\* the 24 states.
C10_FlatToMinor == OffsetRule(FlatToMinor, 0 - 4, 4)

\* the graph is built: FlatToMinor has been applied to all 24 scales, among
\* them one whose index wraps round
C10_Witness ==
    /\ pc = "call"
    /\ Cardinality({e \in 1..Len(graph.edges) : graph.edges[e].weight = FlatToMinor}) = 24
    /\ \E e \in 1..Len(graph.edges) :
          /\ graph.edges[e].weight = FlatToMinor
          /\ graph.edges[e].source < graph.edges[e].target
          /\ fmt(node_weight(graph, graph.edges[e].source).kind) = "A"

\* C11: Diagonal swaps the kind and moves the index by +1 modulo 12 from
\* "B" (Major) and by -1 modulo 12 from "A" (Minor), for each of the 24
\* states.
C11_Diagonal == OffsetRule(Diagonal, 0 - 1, 1)

\* the graph is built: Diagonal has been applied to all 24 scales, among
\* them 12B, whose index wraps round to 1A
C11_Witness ==
    /\ pc = "call"
    /\ Cardinality({e \in 1..Len(graph.edges) : graph.edges[e].weight = Diagonal}) = 24
    /\ \E e \in 1..Len(graph.edges) :
          /\ graph.edges[e].weight = Diagonal
          /\ node_weight(graph, graph.edges[e].source) = scale(11, KindOfLetter("B"))
          /\ node_weight(graph, graph.edges[e].target) = scale(0, KindOfLetter("A"))

\* the 24 enumerated states
EnumeratedStates == {scale(i, kind) : i \in 0..11, kind \in ScaleKind}

\* C12: main never panics while it builds the graph: for each scale and
\* rule reached so far make_transition has not run into unreachable!() and
\* has yielded one of the 24 enumerated states, found in scale_to_index.
C12_TransitionsClosed ==
    /\ pc # "panic"
    /\ pc \in {"edges", "call"} =>
          \A e \in 1..Len(graph.edges) :
             LET k == e - 1
                 from == make_nodes[(k \div 10) + 1]
                 to == make_transition(from, possible_transitions[(k % 10) + 1])
             IN  /\ to # Unreachable
                 /\ to \in EnumeratedStates
                 /\ graph.edges[e].source \in 0..23
                 /\ graph.edges[e].target \in 0..23
                 /\ node_weight(graph, graph.edges[e].source) = from
                 /\ node_weight(graph, graph.edges[e].target) = to

\* all 24 scales have been taken through all 10 rules
C12_Witness == pc = "call" /\ Len(graph.edges) = 240

\* C13: the graph main has built has 24 nodes and 240 edges, and each node
\* has 10 outgoing edges, one for each rule of the catalog.
C13_GraphSize ==
    /\ pc # "panic"
    /\ pc = "call" =>
          /\ Len(graph.nodes) = 24
          /\ Len(graph.edges) = 240
          /\ \A a \in 0..23 :
                /\ Cardinality(OutgoingOf(graph, a)) = 10
                /\ {graph.edges[e].weight : e \in OutgoingOf(graph, a)} =
                      {possible_transitions[j] : j \in 1..Len(possible_transitions)}
                /\ Cardinality({graph.edges[e].weight : e \in OutgoingOf(graph, a)}) = 10

\* main has built the graph
C13_Witness == pc = "call" /\ graph.nodes = make_nodes /\ graph.edges # <<>>

\* C14: the graph main has built is strongly connected: from each node a
\* walk reaches each node.
C14_StronglyConnected ==
    pc = "call" => \A a \in 0..23 : Reach(graph, a) = 0..23

\* main has built the graph, and 1B is not one edge away from 12A: the
\* walk from 12A to 1B takes more than one rule
C14_Witness ==
    /\ pc = "call"
    /\ \A e \in OutgoingOf(graph, scale_to_index[scale(11, "Minor")]) :
          graph.edges[e].target # scale_to_index[scale(0, "Major")]

\* C15: for each scale s and each amount k of -MaxAmount..MaxAmount,
\* negative amounts and amounts beyond 12 either way among them,
\* change_index(s, k) has the kind of s and its index is in 0..11 and is
\* the non-negative remainder of s.index + k modulo 12.
C15_ChangeIndex ==
    call.fn = "change_index" =>
       /\ call.ret.kind = call.self.kind
       /\ call.ret.index \in 0..11
       /\ \E q \in (0 - MaxAmount)..MaxAmount :
             call.self.index + call.amount = 12 * q + call.ret.index

\* change_index has been called with an amount below -12 on a sum that is
\* negative, and with an amount above 12
C15_Witness ==
    /\ call.fn = "change_index"
    /\ \/ call.amount < 0 - 12 /\ call.self.index + call.amount < 0 - 12
       \/ call.amount > 12 /\ call.self.index + call.amount > 12 + 11

\* C16: swap_kind keeps the index, and swap_kind of swap_kind of a scale is
\* that scale.
C16_SwapKindInvolution ==
    call.fn = "swap_kind" =>
       /\ call.ret.index = call.self.index
       /\ call.applied = 2 => call.ret = call.first

\* swap_kind has been applied twice, the first time to a scale it changed
C16_Witness ==
    /\ call.fn = "swap_kind"
    /\ call.applied = 2
    /\ call.self # call.first

\* C17: the target is not absorbing: a candidate popped at the target is
\* emitted, and unless it is the n-th result it is expanded like any other
\* candidate, one child pushed for each outgoing edge; the n-th result alone
\* is not expanded, and the search returns with it.
C17_TargetNotAbsorbing ==
    [][(pc = "search" /\ min_heap # <<>> /\ pop(min_heap).item.node = target) =>
          LET popped == pop(min_heap)
              path == Visit(popped.item)
              out == edges(graph, path.node)
          IN  /\ paths' = Append(paths, path)
              /\ IF Len(paths') = n
                 THEN /\ pc' = "done"
                      /\ min_heap' = popped.data
                      /\ pushed' = pushed
                 ELSE /\ pc' = "search"
                      /\ Len(min_heap') = Len(popped.data) + Len(out)
                      /\ pushed' = pushed \o PushedFor(path, out)]_vars

\* C18: the costs of the candidates popped one after the other never
\* decrease, and whenever a candidate of cost c has been popped each
\* candidate of the frontier costs c or c + 1, both before and after the
\* children of the popped candidate are pushed.
C18_LevelByLevel ==
    [][(pc = "search" /\ min_heap # <<>>) =>
          LET popped == pop(min_heap)
              c == popped.item.cost
          IN  /\ \A i \in 1..Len(popped.data) : popped.data[i].cost \in {c, c + 1}
              /\ \A i \in 1..Len(min_heap') : min_heap'[i].cost \in {c, c + 1}
              /\ (pc' = "search" /\ min_heap' # <<>>) =>
                    pop(min_heap').item.cost >= c]_vars

\* the frontier holds candidates of two levels beyond the first, so
\* candidates of cost 2 have been popped while others of cost 2 wait
C18_Witness ==
    /\ pc = "search"
    /\ \E i, j \in 1..Len(min_heap) :
          /\ min_heap[i].cost = 2
          /\ min_heap[j].cost = 3

\* C20: in a search on the graph main has built no walk comes twice: the
\* paths found so far have pairwise different sequences of transitions, and
\* when the search returns all the candidates it has pushed, the seed
\* included, have pairwise different sequences of transitions from the
\* source.
C20_NoWalkTwice ==
    Entered =>
       /\ Returned =>
             Cardinality({pushed[i] : i \in 1..Len(pushed)}) = Len(pushed)
       /\ \A i, j \in 1..Len(paths) :
             i # j => paths[i].transition_path # paths[j].transition_path

\* a search has returned two paths of the same cost after pushing the
\* children of more than two candidates
C20_Witness ==
    /\ Returned
    /\ Len(paths) >= 2
    /\ paths[1].cost = paths[2].cost
    /\ paths[1].transition_path # <<>>
    /\ Len(pushed) > 21

\* the walks of g from a to b of at most c edges
WalksUpTo(g, a, b, c) == CheaperWalks(g, a, b, c + 1)

\* C19: the costs multi_path_dijkstra returns do not depend on which of
\* the equal candidates the heap pops: whichever greatest candidate is
\* popped at each turn, the i-th cost returned is the length of the i-th
\* walk from source to target when the walks are put in the order of their
\* lengths, and the number of paths returned is n (1 when n is 0) or, when
\* there are fewer walks, the number of walks; both are fixed by the
\* graph, source, target and n.
C19_CostsWithoutTies ==
    Returned =>
       /\ LET all == Cardinality(WalksUpTo(graph, source, target, AnyMaxCost))
              asked == IF n = 0 THEN 1 ELSE n
          IN  Len(paths) = IF all < asked THEN all ELSE asked
       /\ \A i \in 1..Len(paths) :
             /\ Cardinality(WalksUpTo(graph, source, target, paths[i].cost)) >= i
             /\ Cardinality(CheaperWalks(graph, source, target, paths[i].cost)) < i

\* a search has returned while a candidate at the target of the cost of
\* the last path returned was in the heap: another pop would have returned
\* that one
C19_Witness ==
    /\ Returned
    /\ n >= 1
    /\ Len(paths) = n
    /\ \E item \in BagToSet(min_heap) :
          /\ item.node = target
          /\ item.cost = paths[Len(paths)].cost

====
